---------------------------- MODULE Spec2Model ----------------------------
(***************************************************************************)
(* A model of humblebundle-ebook-downloader (src/index.js): the catalog    *)
(* fetch, the order filter, the download planner, the integrity check and  *)
(* the bounded download queue, as one state machine of main().             *)
(*                                                                         *)
(* Data abstractions                                                       *)
(*  - strings are TLA+ strings; undefined is the string None; String      *)
(*    methods (toLowerCase, trim, endsWith, sanitize-filename) are tables  *)
(*    over the strings the model draws its inputs from;                    *)
(*  - a file's content is a number: 0 is a truncated or mixed file, c > 0  *)
(*    is the complete content c; hasha's digests are the injective         *)
(*    <<"sha1", c>> and <<"md5", c>>, an absent checksum is <<>>;          *)
(*  - gamekeys are numbers, 0 is the empty string.                         *)
(***************************************************************************)
EXTENDS Integers, Sequences, FiniteSets, TLC

VARIABLES
    options,          \* commander.opts(): formats, keys, downloadLimit, all, authToken
    configFile,       \* ~/.humblebundle_ebook_downloader.json on disk
    accountKeys,      \* server: the gamekeys of the account, as the key-list endpoint lists them
    catalog,          \* server: gamekey -> order, for the keys that have content
    files,            \* the download folder: path -> content
    pc,               \* main()'s position
    session,          \* main(): session
    fetchedKeys,      \* main(): fetchedKeys
    filteredKeys,     \* main(): filteredKeys
    chunkIndex,       \* fetchAndFilterOrders: chunks already requested
    fetchedOrders,    \* fetchAndFilterOrders: fetchedOrders
    orderRequests,    \* the order-detail requests issued, each the chunk of keys it carried
    bundles,          \* main(): bundles
    downloads,        \* processBundles: downloads (the planned tasks)
    bundleFormats,    \* processBundles: bundleFormats of each bundle, as printed
    totalDownloads,   \* line 44
    doneDownloads,    \* line 45
    taskState,        \* per task: where its downloadEbook / doDownload call stands
    hashInput,        \* per task: <<c>> when hasha.fromFile read content c, <<>> when no file was read
    queue,            \* downloadQueue: the jobs waiting, oldest first
    downloadPromises, \* line 47: the tasks whose queue promise was pushed
    exitCode,         \* {} while the process runs, {c} once it exited with status c
    printed,          \* console lines that matter: "Done!", the error banner, the help text
    rerun,            \* FALSE in the first run of the program, TRUE in a re-run on the same folder
    firstRunClean,    \* in a re-run: the first run ended with 'Done!'
    folderAtStart     \* the download folder as the running process found it

vars == <<options, configFile, accountKeys, catalog, files, pc, session, fetchedKeys,
          filteredKeys, chunkIndex, fetchedOrders, orderRequests, bundles, downloads,
          bundleFormats, totalDownloads, doneDownloads, taskState, hashInput, queue,
          downloadPromises, exitCode, printed, rerun, firstRunClean, folderAtStart>>

-----------------------------------------------------------------------------
(* Bounds of the model *)

MaxKeys == 81        \* longest key list of the account and of --keys
MaxLimit == 2        \* largest --download-limit
MaxContent == 2      \* distinct file contents

(* Program constants *)

ChunkSize == 40      \* fetchAndFilterOrders: chunkSize
MapConcurrency == 5  \* processBundles: PMap concurrency
DefaultLimit == 1    \* --download-limit default
ExitFatal == 1       \* main: process.exit(1) in the catch block
ExitDone == 1        \* main: process.exit(1) after 'Done!'
ExitHelp == 0        \* commander.help() ends the process with status 0
ExitDrained == 0     \* node ends with status 0 when nothing is left to run
NotExited == {}      \* exitCode while the process runs; {c} once it exited with c

None == "<undefined>"
NoHash == <<>>

-----------------------------------------------------------------------------
(* Sequence helpers *)

RECURSIVE Flatten(_)
Flatten(ss) == IF ss = <<>> THEN <<>> ELSE Head(ss) \o Flatten(Tail(ss))

Range(s) == {s[i] : i \in DOMAIN s}

Min(a, b) == IF a <= b THEN a ELSE b

-----------------------------------------------------------------------------
(* Strings.  The labels, names and URL segments the inputs are drawn from,  *)
(* and the String methods the program applies to them, as tables.           *)

Labels == {"EPUB", "epub", "PDF (HD)", "PDF (HQ)", ".CBZ", "Download", "Supplement", "MP4"}

\* String.prototype.toLowerCase
ToLowerCase(s) ==
    CASE s = "EPUB" -> "epub"
      [] s = "PDF (HD)" -> "pdf (hd)"
      [] s = "PDF (HQ)" -> "pdf (hq)"
      [] s = ".CBZ" -> ".cbz"
      [] s = "Download" -> "download"
      [] s = "Supplement" -> "supplement"
      [] s = "MP4" -> "mp4"
      [] s = "Bundle A" -> "bundle a"
      [] s = "Bundle B" -> "bundle b"
      [] s = "Bundle: A" -> "bundle: a"
      [] s = "Bundle" -> "bundle"
      [] s = " A" -> " a"
      [] OTHER -> s

\* String.prototype.trim
Trim(s) ==
    CASE s = "Book " -> "Book"
      [] s = " Book" -> "Book"
      [] OTHER -> s

\* sanitize-filename: the characters / ? < > \ : * | " are removed
SanitizeFilename(s) ==
    CASE s = "Bo/ok" -> "Book"
      [] s = "Bundle: A" -> "Bundle A"
      [] OTHER -> s

\* String.prototype.endsWith('video')
EndsWithVideo(s) == s \in {"video", "intro-to-x-video"}

\* String.prototype.includes, for the bundle names and --filter texts of the model
Includes(s, part) ==
    \/ part = ""
    \/ s = part
    \/ part = "bundle" /\ s \in {"bundle a", "bundle b", "bundle: a"}
    \/ part = " a" /\ s \in {"bundle a", "bundle: a"}

\* String.prototype.localeCompare, for the names and dates of the model: -1, 0 or 1
Rank(s) ==
    CASE s \in {"Bundle A", "2019-01-01"} -> 1
      [] s \in {"Bundle B", "2020-01-01"} -> 2
      [] s \in {"Bundle: A", "2021-01-01"} -> 3
      [] OTHER -> 4

LocaleCompare(a, b) ==
    IF a = b THEN 0 ELSE IF Rank(a) < Rank(b) THEN -1 ELSE IF Rank(a) > Rank(b) THEN 1 ELSE 0

\* a JavaScript string (or undefined) used as a condition
Truthy(v) == v # None /\ v # ""

-----------------------------------------------------------------------------
(* The planner's pure functions *)

SUPPORTED_FORMATS == <<"epub", "mobi", "prc", "pdf", "pdf_hd", "cbz", "video">>

ALLOWED_FORMATS == Range(SUPPORTED_FORMATS) \cup {"all"}

\* faulty variant, for comparison: the label is compared as it is written
normalizeFormat_CaseSensitive(format) ==
    CASE format = ".cbz" -> "cbz"
      [] format \in {"pdf (hq)", "pdf (hd)"} -> "pdf_hd"
      [] format = "download" -> "download"
      [] format = "supplement" -> "supplement"
      [] OTHER -> ToLowerCase(format)

normalizeFormat(format) ==
    LET lower == ToLowerCase(format) IN
    CASE lower = ".cbz" -> "cbz"
      [] lower \in {"pdf (hq)", "pdf (hd)"} -> "pdf_hd"
      [] lower = "download" -> "download"
      [] lower = "supplement" -> "supplement"
      [] OTHER -> lower

adjustFormat(format, isVideo) == IF isVideo THEN <<"video", format>> ELSE <<format>>

\* faulty variant, for comparison: every tag is its own extension
getExtension_Plain(format) == <<".", format>>

\* the extension is the text appended to the subproduct's name
getExtension(format) ==
    CASE ToLowerCase(format) = "pdf_hd" -> <<" (hd).pdf">>
      [] ToLowerCase(format) = "supplement" -> <<".supplement.zip">>
      [] ToLowerCase(format) = "download" -> <<".download.zip">>
      [] OTHER -> <<".", format>>

requiredPlatform(platform) == platform = "ebook" \/ Truthy("video")

\* faulty variant, for comparison: the URL alone decides, whatever the label
identifyVideo_AnyLabel(download, subproduct) ==
    IF download.platform = "video"
    THEN TRUE
    ELSE \E i \in DOMAIN subproduct.url : EndsWithVideo(subproduct.url[i])

\* subproduct.url is the sequence of its parts between slashes
identifyVideo(download, subproduct) ==
    IF download.platform = "video"
    THEN TRUE
    ELSE LET isDownloadOrSupplement ==
                 normalizeFormat(download.name) = "download"
                 \/ normalizeFormat(download.name) = "supplement"
             urlIsVideo == \E i \in DOMAIN subproduct.url : EndsWithVideo(subproduct.url[i])
         IN isDownloadOrSupplement /\ urlIsVideo

-----------------------------------------------------------------------------
(* The order filter *)

\* keypath.get(order, 'subproducts.[].downloads.[].platform').flat()
Platforms(order) ==
    Flatten([s \in DOMAIN order.subproducts |->
                [d \in DOMAIN order.subproducts[s].downloads |->
                    order.subproducts[s].downloads[d].platform]])

\* faulty variant, for comparison: dates are compared like names, oldest first
sortBundles_Ascending(a, b, sortOrder) ==
    CASE sortOrder = "name" -> LocaleCompare(a.product.human_name, b.product.human_name)
      [] sortOrder = "date" -> LocaleCompare(a.created, b.created)
      [] OTHER -> 0

sortBundles(a, b, sortOrder) ==
    CASE sortOrder = "name" -> LocaleCompare(a.product.human_name, b.product.human_name)
      [] sortOrder = "date" -> LocaleCompare(b.created, a.created)
      [] OTHER -> 0

\* Array.prototype.sort with sortBundles: a stable insertion sort
RECURSIVE Insert(_, _, _)
Insert(sorted, x, sortOrder) ==
    IF sorted = <<>> THEN <<x>>
    ELSE IF sortBundles(x, Head(sorted), sortOrder) < 0
         THEN <<x>> \o sorted
         ELSE <<Head(sorted)>> \o Insert(Tail(sorted), x, sortOrder)

RECURSIVE Sort(_, _)
Sort(orders, sortOrder) ==
    IF orders = <<>> THEN <<>>
    ELSE Insert(Sort(SubSeq(orders, 1, Len(orders) - 1), sortOrder),
                orders[Len(orders)], sortOrder)

HasEbookSection(order) == "ebook" \in Range(Platforms(order))

filterOrders(orders, opts) ==
    LET MatchesFilter(order) ==
            ~Truthy(opts.filter)
            \/ Includes(ToLowerCase(order.product.human_name), ToLowerCase(opts.filter))
        named == SelectSeq(orders, MatchesFilter)
        ebooks == SelectSeq(named, HasEbookSection)
    IN Sort(ebooks, opts.sort)

-----------------------------------------------------------------------------
(* The planner: processBundles up to line 410 *)

\* keypath.get(filteredDownloads, '[].download_struct').flat()
DownloadStructs(subproduct) ==
    LET Required(download) == requiredPlatform(download.platform)
        filteredDownloads == SelectSeq(subproduct.downloads, Required)
    IN Flatten([d \in DOMAIN filteredDownloads |-> filteredDownloads[d].download_struct])

\* faulty variant, for comparison: the tag is not adjusted for a video
FilterFormat_NoVideo(download, subproduct) == normalizeFormat(download.name)

\* line 361: the tag the filter compares with the requested formats
FilterFormat(download, subproduct) ==
    IF identifyVideo(download, subproduct) THEN "video" ELSE normalizeFormat(download.name)

\* the filter callback of lines 354-368, without its bundleFormats side effect
KeepDownload(download, subproduct, formats) ==
    IF ~Truthy(download.name) \/ ~Truthy(download.url)
    THEN FALSE
    ELSE "all" \in Range(formats) \/ FilterFormat(download, subproduct) \in Range(formats)

\* lines 370-381: the tasks of one subproduct; ref is the identity of the
\* download_struct object: <<bundle, subproduct, position among downloadStructs>>
SubproductDownloads(bundle, b, s, formats) ==
    LET subproduct == bundle.subproducts[s]
        downloadStructs == DownloadStructs(subproduct)
        Kept(j) == KeepDownload(downloadStructs[j], subproduct, formats)
        kept == SelectSeq([j \in DOMAIN downloadStructs |-> j], Kept)
    IN [i \in DOMAIN kept |->
          LET filteredDownload == downloadStructs[kept[i]]
              isVideo == identifyVideo(filteredDownload, subproduct)
              normalizedFormat == normalizeFormat(filteredDownload.name)
          IN [bundle |-> bundle.product.human_name,
              download |-> filteredDownload,
              name |-> subproduct.human_name,
              adjustedFormat |-> adjustFormat(normalizedFormat, isVideo),
              ref |-> <<b, s, kept[i]>>]]

BundleDownloads(bundle, b, formats) ==
    Flatten([s \in DOMAIN bundle.subproducts |-> SubproductDownloads(bundle, b, s, formats)])

\* Array.prototype.indexOf(x) === -1 guards every push: the first occurrences
PushOnce(tags) ==
    LET IsFirst(i) == \A j \in 1..(i - 1) : tags[j] # tags[i]
        firsts == SelectSeq([i \in DOMAIN tags |-> i], IsFirst)
    IN [n \in DOMAIN firsts |-> tags[firsts[n]]]

\* faulty variant, for comparison: every tag seen is pushed, supported or not
SeenFormats_Unsupported(subproduct) ==
    LET downloadStructs == DownloadStructs(subproduct)
        Seen(j) == Truthy(downloadStructs[j].name) /\ Truthy(downloadStructs[j].url)
        seen == SelectSeq([j \in DOMAIN downloadStructs |-> j], Seen)
    IN [n \in DOMAIN seen |-> FilterFormat(downloadStructs[seen[n]], subproduct)]

\* lines 355-365: the tags of a subproduct that reach the push of line 364
SeenFormats(subproduct) ==
    LET downloadStructs == DownloadStructs(subproduct)
        Seen(j) ==
            /\ Truthy(downloadStructs[j].name) /\ Truthy(downloadStructs[j].url)
            /\ FilterFormat(downloadStructs[j], subproduct) \in Range(SUPPORTED_FORMATS)
        seen == SelectSeq([j \in DOMAIN downloadStructs |-> j], Seen)
    IN [n \in DOMAIN seen |-> FilterFormat(downloadStructs[seen[n]], subproduct)]

\* lines 345 and 363-365: bundleFormats when the bundle's loop has ended
BundleFormats(bundle) ==
    PushOnce(Flatten([s \in DOMAIN bundle.subproducts |-> SeenFormats(bundle.subproducts[s])]))

\* lines 342-398: downloads
PlanDownloads(bs, formats) ==
    Flatten([b \in DOMAIN bs |-> BundleDownloads(bs[b], b, formats)])

-----------------------------------------------------------------------------
(* The integrity check and the destination path *)

\* lines 444-454: <download folder>/<bundle>/<name><extension>
FilePath(download) ==
    <<SanitizeFilename(download.bundle),
      <<SanitizeFilename(Trim(download.name))>>
          \o getExtension(normalizeFormat(download.download.name))>>

\* hasha.fromFile: the digest of a file with content c
Hash(algorithm, c) == <<algorithm, c>>

\* faulty variant, for comparison: the digest is always MD5
checkSignatureMatch_Md5Only(c, download) == Hash("md5", c) = download.md5

\* lines 326-329, for a file that exists and holds content c
checkSignatureMatch(c, download) ==
    LET algorithm == IF download.sha1 # NoHash THEN "sha1" ELSE "md5"
        hashToVerify == download[algorithm]
        hash == Hash(algorithm, c)
    IN hash = hashToVerify

\* faulty variant, for comparison: no file is ever found
existsSync_Never(disk, path) == FALSE

existsSync(disk, path) == path \in DOMAIN disk

\* a write of content c to path
WriteFile(disk, path, c) == [q \in DOMAIN disk \cup {path} |-> IF q = path THEN c ELSE disk[q]]

-----------------------------------------------------------------------------
(* The two pools: p-map over the tasks, p-queue over the transfers *)

Tasks == DOMAIN downloads

\* p-queue's pending count: the jobs started whose promise has not settled
Running(ts) == {i \in DOMAIN ts : ts[i] \in {"downloading", "stuck"}}

\* faulty variant, for comparison: one job too many
HasFreeSlot_OffByOne(ts) == Cardinality(Running(ts)) <= options.downloadLimit

\* p-queue starts a job only below its concurrency
HasFreeSlot(ts) == Cardinality(Running(ts)) < options.downloadLimit

\* faulty variant, for comparison: p-map without its concurrency option
FirstMappers_Unbounded(planned) == Len(planned)

\* p-map starts as many mappers as its concurrency allows, in order
FirstMappers(planned) == Min(MapConcurrency, Len(planned))

\* p-map: a mapper has returned, the next task in order is mapped
\* (downloadEbook runs up to its mkdir call)
NextMapper(ts) ==
    LET planned == {i \in DOMAIN ts : ts[i] = "planned"} IN
    IF planned = {} THEN ts
    ELSE [ts EXCEPT ![CHOOSE i \in planned : \A j \in planned : i <= j] = "mkdir"]

\* doDownload up to its await: the write stream opens and truncates the file
StartDownload(st, i) ==
    [ts |-> [st.ts EXCEPT ![i] = "downloading"],
     q |-> st.q,
     disk |-> WriteFile(st.disk, FilePath(downloads[i]), 0)]

\* lines 458-460: downloadQueue.add(() => doDownload(filePath, download))
QueueAdd(st, i) ==
    IF HasFreeSlot(st.ts)
    THEN StartDownload(st, i)
    ELSE [ts |-> [st.ts EXCEPT ![i] = "queued"], q |-> Append(st.q, i), disk |-> st.disk]

\* p-queue: a job's promise settled, the oldest waiting job starts
QueueNext(st) ==
    IF st.q # <<>> /\ HasFreeSlot(st.ts)
    THEN StartDownload([st EXCEPT !.q = Tail(st.q)], Head(st.q))
    ELSE st

-----------------------------------------------------------------------------
(* main() *)

\* the catch block of main, lines 526-530
Fatal(error) ==
    /\ pc' = "exited"
    /\ exitCode' = {ExitFatal}
    /\ printed' = printed \cup {"An error occured, exiting.", error}

envVars == <<options, configFile, accountKeys, catalog, rerun, firstRunClean, folderAtStart>>
fetchVars == <<fetchedKeys, filteredKeys, chunkIndex, fetchedOrders, orderRequests>>
planVars == <<bundles, downloads, bundleFormats, totalDownloads>>
poolVars == <<doneDownloads, taskState, hashInput, queue, downloadPromises, files>>

\* commander.authToken, as validateSession reads it
AuthToken == options.authToken

\* faulty variant, for comparison: only the first requested format is checked
CheckFormats_FirstOnly ==
    /\ pc = "start"
    /\ IF options.formats[1] \notin ALLOWED_FORMATS
       THEN /\ pc' = "exited"
            /\ exitCode' = {ExitHelp}
            /\ printed' = printed \cup {"Invalid format selected."}
       ELSE /\ pc' = "loadConfig"
            /\ printed' = printed \cup {"Starting..."}
            /\ UNCHANGED exitCode
    /\ UNCHANGED <<envVars, fetchVars, planVars, poolVars, session>>

\* lines 49-62: the requested formats are checked, then main() starts
CheckFormats ==
    /\ pc = "start"
    /\ IF \E i \in DOMAIN options.formats : options.formats[i] \notin ALLOWED_FORMATS
       THEN /\ pc' = "exited"
            /\ exitCode' = {ExitHelp}
            /\ printed' = printed \cup {"Invalid format selected."}
       ELSE /\ pc' = "loadConfig"
            /\ printed' = printed \cup {"Starting..."}
            /\ UNCHANGED exitCode
    /\ UNCHANGED <<envVars, fetchVars, planVars, poolVars, session>>

\* config.expires < new Date(): expires is the text JSON.stringify wrote, and a
\* text that is no number compares false with a Date
Expired(config) == FALSE

\* loadConfig (lines 64-75) and validateSession up to its request (lines 88-108)
LoadConfig ==
    /\ pc = "loadConfig"
    /\ IF configFile.file = "unparseable"
       THEN Fatal("SyntaxError") /\ UNCHANGED session
       ELSE LET config == IF configFile.file = "missing"
                          THEN [session |-> None, expires |-> None]
                          ELSE [session |-> configFile.session, expires |-> configFile.expires]
            IN /\ UNCHANGED <<exitCode, printed>>
               /\ IF ~Truthy(AuthToken)
                  THEN IF ~Truthy(config.session) \/ ~Truthy(config.expires) \/ Expired(config)
                       THEN pc' = "authenticate" /\ UNCHANGED session
                       ELSE pc' = "validateSession" /\ session' = config.session
                  ELSE pc' = "validateSession" /\ session' = AuthToken
    /\ UNCHANGED <<envVars, fetchVars, planVars, poolVars>>

\* validateSession from the response on (lines 110-118); main then requests the key list
ValidateSession ==
    /\ pc = "validateSession"
    /\ \E statusCode \in {200, 401, 500} :
         IF statusCode = 200
         THEN pc' = "fetchKeys" /\ UNCHANGED <<session, exitCode, printed>>
         ELSE IF statusCode = 401 /\ ~Truthy(AuthToken)
              THEN pc' = "authenticate" /\ UNCHANGED <<session, exitCode, printed>>
              ELSE Fatal("Could not validate session") /\ UNCHANGED session
    /\ UNCHANGED <<envVars, fetchVars, planVars, poolVars>>

\* authenticate (lines 131-156): the operator logs in, the session is saved
Authenticate ==
    /\ pc = "authenticate"
    /\ session' = "fresh"
    /\ configFile' = [file |-> "json", session |-> "fresh", expires |-> "2021-01-01"]
    /\ pc' = "fetchKeys"
    /\ UNCHANGED <<options, accountKeys, catalog, rerun, firstRunClean, folderAtStart,
                   exitCode, printed, fetchVars, planVars, poolVars>>

\* if (!options.keys): options.keys is the list split(',') gives, <<>> when -k is
\* absent and <<0>> for the empty text (0 is the empty key), which is falsy too
KeysGiven == options.keys # <<>> /\ options.keys # <<0>>

\* faulty variant, for comparison: only the first key of --keys is checked
InvalidKeys_FirstOnly(keys) ==
    IF ~KeysGiven THEN {} ELSE {i \in {1} : options.keys[i] \notin Range(keys)}

\* lines 175-191; the keys of --keys that are not the account's
InvalidKeys(keys) ==
    IF ~KeysGiven THEN {}
    ELSE {i \in DOMAIN options.keys : options.keys[i] \notin Range(keys)}

filterKeys(keys) == IF ~KeysGiven THEN keys ELSE options.keys

\* faulty variant, for comparison: the last, shorter chunk is dropped
chunkArray_Floor(array, size) ==
    [index \in 1..(Len(array) \div size) |->
        SubSeq(array, (index - 1) * size + 1, (index - 1) * size + size)]

\* lines 261-265
chunkArray(array, size) ==
    [index \in 1..((Len(array) + size - 1) \div size) |->
        SubSeq(array, (index - 1) * size + 1, Min((index - 1) * size + size, Len(array)))]

\* the order the server holds for a key
OrderOf(key) ==
    IF key \in DOMAIN catalog THEN catalog[key]
    ELSE [gamekey |-> key, product |-> [human_name |-> "Empty"], created |-> "2019-01-01",
          subproducts |-> <<>>]

\* the response to a chunk's request is an object keyed by gamekey: one order
\* for each key of the chunk, in the order the keys first occur
Distinct(keys) ==
    LET IsFirst(i) == \A j \in 1..(i - 1) : keys[j] # keys[i]
        firsts == SelectSeq([i \in DOMAIN keys |-> i], IsFirst)
    IN [n \in DOMAIN firsts |-> keys[firsts[n]]]

OrdersArray(chunk) == [i \in DOMAIN Distinct(chunk) |-> OrderOf(Distinct(chunk)[i])]

\* fetchAndFilterKeys from the response on (lines 165-172), filterKeys, and
\* fetchAndFilterOrders up to its first request (lines 193-217)
FetchKeys ==
    /\ pc = "fetchKeys"
    /\ \E statusCode \in {200, 500} :
         IF statusCode # 200
         THEN Fatal("Could not fetch orders") /\ UNCHANGED fetchVars
         ELSE /\ fetchedKeys' = accountKeys
              /\ IF InvalidKeys(accountKeys) # {}
                 THEN Fatal("Invalid key") /\ UNCHANGED <<filteredKeys, chunkIndex, orderRequests, fetchedOrders>>
                 ELSE LET keys == filterKeys(accountKeys)
                          chunkedKeys == chunkArray(keys, ChunkSize)
                      IN /\ filteredKeys' = keys
                         /\ UNCHANGED <<fetchedOrders, exitCode, printed>>
                         /\ IF chunkedKeys = <<>>
                            THEN /\ pc' = "filterOrders"
                                 /\ UNCHANGED <<chunkIndex, orderRequests>>
                            ELSE /\ pc' = "fetchOrders"
                                 /\ chunkIndex' = 1
                                 /\ orderRequests' = <<chunkedKeys[1]>>
    /\ UNCHANGED <<envVars, planVars, poolVars, session>>

\* faulty variant, for comparison: a chunk that fails is reported and left out
FetchOrders_SkipFailed ==
    /\ pc = "fetchOrders"
    /\ LET chunkedKeys == chunkArray(filteredKeys, ChunkSize) IN
       /\ \E ok \in BOOLEAN :
            IF ok
            THEN fetchedOrders' = fetchedOrders \o OrdersArray(chunkedKeys[chunkIndex])
                 /\ UNCHANGED printed
            ELSE printed' = printed \cup {"HTTPError"} /\ UNCHANGED fetchedOrders
       /\ IF chunkIndex = Len(chunkedKeys)
          THEN pc' = "filterOrders" /\ UNCHANGED <<chunkIndex, orderRequests>>
          ELSE /\ pc' = "fetchOrders"
               /\ chunkIndex' = chunkIndex + 1
               /\ orderRequests' = Append(orderRequests, chunkedKeys[chunkIndex + 1])
    /\ UNCHANGED <<envVars, planVars, poolVars, session, fetchedKeys, filteredKeys, exitCode>>

\* fetchAndFilterOrders, one turn of its loop from the response on (lines 215-225)
FetchOrders ==
    /\ pc = "fetchOrders"
    /\ \E ok \in BOOLEAN :
         IF ~ok
         THEN Fatal("HTTPError") /\ UNCHANGED fetchVars
         ELSE LET chunkedKeys == chunkArray(filteredKeys, ChunkSize) IN
              /\ fetchedOrders' = fetchedOrders \o OrdersArray(chunkedKeys[chunkIndex])
              /\ UNCHANGED <<fetchedKeys, filteredKeys, exitCode, printed>>
              /\ IF chunkIndex = Len(chunkedKeys)
                 THEN pc' = "filterOrders" /\ UNCHANGED <<chunkIndex, orderRequests>>
                 ELSE /\ pc' = "fetchOrders"
                      /\ chunkIndex' = chunkIndex + 1
                      /\ orderRequests' = Append(orderRequests, chunkedKeys[chunkIndex + 1])
    /\ UNCHANGED <<envVars, planVars, poolVars, session>>

\* lines 516-520: filterOrders, then the operator's choice unless --all
FilterOrders ==
    /\ pc = "filterOrders"
    /\ LET filteredOrders == filterOrders(fetchedOrders, options) IN
       IF options.all
       THEN bundles' = filteredOrders
       ELSE \E chosen \in SUBSET {filteredOrders[i].product.human_name : i \in DOMAIN filteredOrders} :
              LET Chosen(item) == item.product.human_name \in chosen
              IN bundles' = SelectSeq(filteredOrders, Chosen)
    /\ pc' = "processBundles"
    /\ UNCHANGED <<envVars, fetchVars, poolVars, session, exitCode, printed,
                   downloads, bundleFormats, totalDownloads>>

\* processBundles (lines 334-413): the plan, then p-map maps the first tasks
ProcessBundles ==
    /\ pc = "processBundles"
    /\ IF bundles = <<>>
       THEN /\ pc' = "awaitDownloads"
            /\ UNCHANGED <<downloads, bundleFormats, totalDownloads, taskState, hashInput>>
       ELSE LET planned == PlanDownloads(bundles, options.formats)
                mapped == FirstMappers(planned)
            IN /\ downloads' = planned
               /\ bundleFormats' = [b \in DOMAIN bundles |-> BundleFormats(bundles[b])]
               /\ totalDownloads' = Len(planned)
               /\ taskState' = [i \in DOMAIN planned |-> IF i <= mapped THEN "mkdir" ELSE "planned"]
               /\ hashInput' = [i \in DOMAIN planned |-> <<>>]
               /\ pc' = "mapping"
    /\ UNCHANGED <<envVars, fetchVars, session, exitCode, printed, bundles,
                   doneDownloads, queue, downloadPromises, files>>

\* faulty variant, for comparison: downloadEbook awaits the promise of
\* downloadQueue.add, so its mapper is not free once the task is enqueued
MkdirDone_AwaitTransfer(i) ==
    /\ pc \in {"mapping", "awaitDownloads"}
    /\ taskState[i] = "mkdir"
    /\ LET filePath == FilePath(downloads[i]) IN
       IF existsSync(files, filePath)
       THEN /\ taskState' = [taskState EXCEPT ![i] = "hashing"]
            /\ hashInput' = [hashInput EXCEPT ![i] = <<files[filePath]>>]
            /\ UNCHANGED <<queue, downloadPromises, files>>
       ELSE LET st == QueueAdd([ts |-> taskState, q |-> queue, disk |-> files], i) IN
            /\ downloadPromises' = Append(downloadPromises, i)
            /\ taskState' = st.ts
            /\ queue' = st.q
            /\ files' = st.disk
            /\ UNCHANGED hashInput
    /\ UNCHANGED <<envVars, fetchVars, planVars, session, pc, exitCode, printed, doneDownloads>>

\* downloadEbook from the end of mkdir to the await of the hash (lines 450-455
\* and 325-328), or to its end when no file exists (lines 457-460)
MkdirDone(i) ==
    /\ pc \in {"mapping", "awaitDownloads"}
    /\ taskState[i] = "mkdir"
    /\ LET filePath == FilePath(downloads[i]) IN
       IF existsSync(files, filePath)
       THEN /\ taskState' = [taskState EXCEPT ![i] = "hashing"]
            /\ hashInput' = [hashInput EXCEPT ![i] = <<files[filePath]>>]
            /\ UNCHANGED <<queue, downloadPromises, files>>
       ELSE LET st == QueueAdd([ts |-> taskState, q |-> queue, disk |-> files], i) IN
            /\ downloadPromises' = Append(downloadPromises, i)
            /\ taskState' = NextMapper(st.ts)
            /\ queue' = st.q
            /\ files' = st.disk
            /\ UNCHANGED hashInput
    /\ UNCHANGED <<envVars, fetchVars, planVars, session, pc, exitCode, printed, doneDownloads>>

\* faulty variant, for comparison: the task is enqueued whatever the check says
HashDone_AlwaysEnqueue(i) ==
    /\ pc \in {"mapping", "awaitDownloads"}
    /\ taskState[i] = "hashing"
    /\ LET st == QueueAdd([ts |-> taskState, q |-> queue, disk |-> files], i) IN
            /\ downloadPromises' = Append(downloadPromises, i)
            /\ taskState' = NextMapper(st.ts)
            /\ queue' = st.q
            /\ files' = st.disk
    /\ doneDownloads' = IF checkSignatureMatch(hashInput[i][1], downloads[i].download)
                        THEN doneDownloads + 1 ELSE doneDownloads
    /\ UNCHANGED <<envVars, fetchVars, planVars, session, pc, exitCode, printed, hashInput>>

\* downloadEbook from the end of the hash on (lines 329 and 457-470)
HashDone(i) ==
    /\ pc \in {"mapping", "awaitDownloads"}
    /\ taskState[i] = "hashing"
    /\ IF checkSignatureMatch(hashInput[i][1], downloads[i].download)
       THEN /\ doneDownloads' = doneDownloads + 1
            /\ taskState' = NextMapper([taskState EXCEPT ![i] = "skipped"])
            /\ UNCHANGED <<queue, downloadPromises, files>>
       ELSE LET st == QueueAdd([ts |-> taskState, q |-> queue, disk |-> files], i) IN
            /\ downloadPromises' = Append(downloadPromises, i)
            /\ taskState' = NextMapper(st.ts)
            /\ queue' = st.q
            /\ files' = st.disk
            /\ UNCHANGED doneDownloads
    /\ UNCHANGED <<envVars, fetchVars, planVars, session, pc, exitCode, printed, hashInput>>

\* the tasks whose transfer is writing to the path of task i, task i aside
OtherWriters(i) ==
    {j \in Tasks \ {i} : taskState[j] = "downloading"
                         /\ FilePath(downloads[j]) = FilePath(downloads[i])}

\* doDownload when the pipeline resolves (lines 486 and 490-498): the file is
\* complete unless another transfer writes to it too; the queue starts its next job
DownloadDone(i) ==
    /\ pc \in {"mapping", "awaitDownloads"}
    /\ taskState[i] = "downloading"
    /\ \E c \in {downloads[i].download.content} \cup (IF OtherWriters(i) = {} THEN {} ELSE {0}) :
         LET st == QueueNext([ts |-> [taskState EXCEPT ![i] = "downloaded"],
                              q |-> queue,
                              disk |-> WriteFile(files, FilePath(downloads[i]), c)])
         IN /\ taskState' = st.ts
            /\ queue' = st.q
            /\ files' = st.disk
    /\ doneDownloads' = doneDownloads + 1
    /\ UNCHANGED <<envVars, fetchVars, planVars, session, pc, exitCode, printed,
                   hashInput, downloadPromises>>

\* doDownload when the pipeline rejects (line 487): the error is printed and
\* the promise of line 482 is never settled
DownloadError(i) ==
    /\ pc \in {"mapping", "awaitDownloads"}
    /\ taskState[i] = "downloading"
    /\ taskState' = [taskState EXCEPT ![i] = "stuck"]
    /\ printed' = printed \cup {"Something went wrong."}
    /\ UNCHANGED <<envVars, fetchVars, planVars, session, pc, exitCode,
                   doneDownloads, hashInput, queue, downloadPromises, files>>

\* faulty variant, for comparison: processBundles returns without awaiting p-map
Mapped_NotAwaited ==
    /\ pc = "mapping"
    /\ pc' = "awaitDownloads"
    /\ UNCHANGED <<envVars, fetchVars, planVars, poolVars, session, exitCode, printed>>

\* p-map resolves when every mapper has returned (line 412, awaited at line 522)
Mapped ==
    /\ pc = "mapping"
    /\ \A i \in Tasks : taskState[i] \notin {"planned", "mkdir", "hashing"}
    /\ pc' = "awaitDownloads"
    /\ UNCHANGED <<envVars, fetchVars, planVars, poolVars, session, exitCode, printed>>

\* faulty variant, for comparison: the transfer promises are not awaited
Done_WithoutAwait ==
    /\ pc = "awaitDownloads"
    /\ printed' = printed \cup {"Done!"}
    /\ exitCode' = {ExitDone}
    /\ pc' = "exited"
    /\ UNCHANGED <<envVars, fetchVars, planVars, poolVars, session>>

\* lines 523-525: every pushed promise has resolved
Done ==
    /\ pc = "awaitDownloads"
    /\ \A k \in DOMAIN downloadPromises : taskState[downloadPromises[k]] = "downloaded"
    /\ printed' = printed \cup {"Done!"}
    /\ exitCode' = {ExitDone}
    /\ pc' = "exited"
    /\ UNCHANGED <<envVars, fetchVars, planVars, poolVars, session>>

\* main awaits promises that never settle (line 523) and nothing is left to
\* run: no request, no stream, no timer; node ends the process
Drained ==
    /\ pc = "awaitDownloads"
    /\ \A i \in Tasks : taskState[i] # "downloading"
    /\ \E i \in Tasks : taskState[i] = "stuck"
    /\ exitCode' = {ExitDrained}
    /\ pc' = "exited"
    /\ UNCHANGED <<envVars, fetchVars, planVars, poolVars, session, printed>>

\* the operator starts the program again, with the same options, on the same
\* account and the same download folder: the state of lines 44-47
Rerun ==
    /\ pc = "exited"
    /\ ~rerun
    /\ rerun' = TRUE
    /\ firstRunClean' = ("Done!" \in printed)
    /\ folderAtStart' = files
    /\ pc' = "start"
    /\ session' = None
    /\ fetchedKeys' = <<>> /\ filteredKeys' = <<>> /\ chunkIndex' = 0
    /\ fetchedOrders' = <<>> /\ orderRequests' = <<>>
    /\ bundles' = <<>> /\ downloads' = <<>> /\ bundleFormats' = <<>>
    /\ totalDownloads' = 0 /\ doneDownloads' = 0
    /\ taskState' = <<>> /\ hashInput' = <<>> /\ queue' = <<>> /\ downloadPromises' = <<>>
    /\ exitCode' = NotExited /\ printed' = {}
    /\ UNCHANGED <<options, configFile, accountKeys, catalog, files>>

Next ==
    \/ CheckFormats
    \/ LoadConfig
    \/ ValidateSession
    \/ Authenticate
    \/ FetchKeys
    \/ FetchOrders
    \/ FilterOrders
    \/ ProcessBundles
    \/ \E i \in Tasks : MkdirDone(i)
    \/ \E i \in Tasks : HashDone(i)
    \/ \E i \in Tasks : DownloadDone(i)
    \/ \E i \in Tasks : DownloadError(i)
    \/ Mapped
    \/ Done
    \/ Drained

\* the state lines 44-62 leave, for the given command line and environment
Start(opts, config, keys, orders, disk) ==
    /\ options = opts
    /\ configFile = config
    /\ accountKeys = keys
    /\ catalog = orders
    /\ files = disk
    /\ pc = "start"
    /\ session = None
    /\ fetchedKeys = <<>> /\ filteredKeys = <<>> /\ chunkIndex = 0
    /\ fetchedOrders = <<>> /\ orderRequests = <<>>
    /\ bundles = <<>> /\ downloads = <<>> /\ bundleFormats = <<>>
    /\ totalDownloads = 0 /\ doneDownloads = 0
    /\ taskState = <<>> /\ hashInput = <<>> /\ queue = <<>> /\ downloadPromises = <<>>
    /\ exitCode = NotExited /\ printed = {}
    /\ rerun = FALSE /\ firstRunClean = FALSE /\ folderAtStart = disk

-----------------------------------------------------------------------------
(* The inputs: the orders the server holds, the command line, the folder *)

\* a download_struct entry; the server serves content c at its url and states
\* the checksums of c that sums names
Struct(label, url, sums, platform, c) ==
    [name |-> label, url |-> url,
     sha1 |-> IF sums \in {"sha1", "both"} THEN Hash("sha1", c) ELSE NoHash,
     md5 |-> IF sums \in {"md5", "both"} THEN Hash("md5", c) ELSE NoHash,
     platform |-> platform, content |-> c]

Download(platform, struct) == [platform |-> platform, download_struct |-> <<struct>>]

Subproduct(name, url, dls) == [human_name |-> name, url |-> url, downloads |-> dls]

Order(key, name, created, subs) ==
    [gamekey |-> key, product |-> [human_name |-> name], created |-> created,
     subproducts |-> subs]

\* the command line: limitArg is <<>> without -l and <<n>> with -l n
Options(formats, keys, limitArg) ==
    [formats |-> formats, keys |-> keys, limitArg |-> limitArg,
     downloadLimit |-> IF limitArg = <<>> THEN DefaultLimit ELSE limitArg[1],
     all |-> TRUE, authToken |-> None, filter |-> None, sort |-> "name"]

LimitArgs == {<<>>} \cup {<<n>> : n \in 1..MaxLimit}

CachedSession == [file |-> "json", session |-> "cached", expires |-> "2021-01-01"]

BookUrl == <<"https:", "", "publisher.example", "product", "book", "123">>
VideoUrl == <<"https:", "", "publisher.example", "product", "intro-to-x-video", "123">>

Contents == 1..MaxContent

(* Spec: two keys, one bundle of one book in two variants and a second     *)
(* bundle of one book, every download limit, a folder that is empty or     *)
(* holds the epubs.                                                        *)

FirstVariants ==
    {Download("ebook", Struct("EPUB", "https://dl.example/epub", "sha1", None, 1)),
     Download("ebook", Struct("PDF (HD)", "https://dl.example/hd", "md5", None, 1)),
     Download("ebook", Struct("PDF (HD)", "https://dl.example/hd", "none", None, 1))}

SecondVariants ==
    {Download("ebook", Struct("PDF (HQ)", "https://dl.example/hq", sums, None, c)) :
        sums \in {"sha1", "md5"}, c \in Contents}

BundleB ==
    Order(2, "Bundle B", "2020-01-01",
          <<Subproduct("Book", BookUrl,
              <<Download("ebook", Struct("EPUB", "https://dl.example/b", "both", None, 1))>>)>>)

RunCatalogs ==
    {(1 :> Order(1, "Bundle A", "2019-01-01", <<Subproduct("Book", BookUrl, <<v1, v2>>)>>))
     @@ (2 :> BundleB) :
        v1 \in FirstVariants, v2 \in SecondVariants}

EpubOfBundleA == <<"Bundle A", <<"Book", ".", "epub">>>>

EpubOfBundleB == <<"Bundle B", <<"Book", ".", "epub">>>>

\* empty, or the epub of Bundle A in any state, or that epub complete beside
\* a truncated epub of Bundle B
RunFolders ==
    {<<>>} \cup {WriteFile(<<>>, EpubOfBundleA, c) : c \in 0..MaxContent}
           \cup {WriteFile(WriteFile(<<>>, EpubOfBundleA, 1), EpubOfBundleB, 0)}

Init ==
    \E formats \in {<<"all">>, <<"epub">>}, limitArg \in LimitArgs,
       orders \in RunCatalogs, disk \in RunFolders :
        Start(Options(formats, <<>>, limitArg), CachedSession, <<1, 2>>, orders, disk)

Spec == Init /\ [][Next]_vars

(* SpecFetch: an account of up to MaxKeys keys, of which key 1 is Bundle A *)
(* with two books, one already in the folder; all keys are fetched, or the *)
(* keys of -k: the first keys of the account, the last of them as it is,   *)
(* replaced by key 1 (a key given twice) or by a key the account lacks, or *)
(* the empty text.                                                         *)

FetchCatalog ==
    1 :> Order(1, "Bundle A", "2019-01-01",
               <<Subproduct("Book", BookUrl,
                   <<Download("ebook", Struct("EPUB", "https://dl.example/epub", "sha1", None, 1)),
                     Download("ebook", Struct("PDF (HQ)", "https://dl.example/hq", "md5", None, 1))>>)>>)

KeyList(n, last) == [i \in 1..n |-> IF i = n THEN last ELSE i]

InitFetch ==
    \/ \E n \in 0..MaxKeys :
         Start(Options(<<"all">>, <<>>, <<>>), CachedSession, KeyList(n, n), FetchCatalog,
               WriteFile(<<>>, EpubOfBundleA, 1))
    \/ \E n \in {2, MaxKeys}, m \in 1..MaxKeys, last \in {0, 1, MaxKeys + 1} :
         Start(Options(<<"all">>, KeyList(m, IF last = 0 THEN m ELSE last), <<>>), CachedSession,
               KeyList(n, n), FetchCatalog, WriteFile(<<>>, EpubOfBundleA, 1))
    \/ \E n \in {2, MaxKeys} :
         Start(Options(<<"all">>, <<0>>, <<>>), CachedSession, KeyList(n, n), FetchCatalog,
               WriteFile(<<>>, EpubOfBundleA, 1))

SpecFetch == InitFetch /\ [][Next]_vars

(* SpecPlan: the run up to the plan, for one bundle of one subproduct, with  *)
(* a book's or a video's URL, that offers two variants: any platform, any   *)
(* label, with or without name and url, with or without a platform of the  *)
(* download_struct entry itself.                                           *)

PlanStructs ==
    {Struct(label, "https://dl.example/file", "md5", platform, 1) :
        label \in Labels \cup {None, ""}, platform \in {None, "ebook", "video"}}
    \cup {Struct("EPUB", None, "md5", None, 1)}

PlanVariants == {Download(platform, struct) : platform \in {"ebook", "video", "audio"},
                                               struct \in PlanStructs}

SecondPlanVariants ==
    {Download(platform, Struct(label, "https://dl.example/file", "md5", None, 1)) :
        platform \in {"ebook", "video", "audio"}, label \in {"EPUB", "Download", "MP4", "PDF (HQ)"}}

PlanCatalogs ==
    {1 :> Order(1, "Bundle A", "2019-01-01", <<Subproduct("Book", url, <<v1, v2>>)>>) :
        url \in {BookUrl, VideoUrl}, v1 \in PlanVariants, v2 \in SecondPlanVariants}

PlanFormats ==
    {<<"all">>, <<"epub">>, <<"video">>, <<"pdf_hd">>, <<"pdf_hd", "cbz">>, <<"epub", "mp4">>}

InitPlan ==
    \E formats \in PlanFormats, orders \in PlanCatalogs :
        Start(Options(formats, <<>>, <<>>), CachedSession, <<1>>, orders, <<>>)

NextPlan ==
    \/ CheckFormats
    \/ LoadConfig
    \/ ValidateSession
    \/ Authenticate
    \/ FetchKeys
    \/ FetchOrders
    \/ FilterOrders
    \/ ProcessBundles

SpecPlan == InitPlan /\ [][NextPlan]_vars

(* SpecFilter: three keys, each a bundle with one of two names, one of two *)
(* dates and downloads of one platform; with and without --filter, sorted  *)
(* by name or by date; the run up to the plan.                             *)

FilterOrdersOf(key) ==
    {Order(key, name, created,
           <<Subproduct("Book", BookUrl,
               <<Download(platform, Struct("EPUB", "https://dl.example/epub", "sha1", None, 1))>>)>>) :
        name \in {"Bundle A", "Bundle B"}, created \in {"2019-01-01", "2020-01-01"},
        platform \in {"ebook", "video", "audio"}}

FilterCatalogs ==
    {(1 :> o1) @@ (2 :> o2) @@ (3 :> o3) :
        o1 \in FilterOrdersOf(1), o2 \in FilterOrdersOf(2), o3 \in FilterOrdersOf(3)}

InitFilter ==
    \E filter \in {None, " A"}, sort \in {"name", "date"}, orders \in FilterCatalogs :
        Start([Options(<<"all">>, <<>>, <<>>) EXCEPT !.filter = filter, !.sort = sort],
              CachedSession, <<1, 2, 3>>, orders, <<>>)

SpecFilter == InitFilter /\ [][NextPlan]_vars

(* SpecStart: every way of starting: requested formats that are allowed or *)
(* not, a session cache that is missing, unparseable, empty or valid, with *)
(* and without --auth-token, with and without -k; one bundle of one book   *)
(* in two variants, one of them in the folder or not.                      *)

StartFormats == {<<"all">>, <<"epub">>, <<"epub", "mp4">>, <<"EPUB">>}

NoConfig == [file |-> "missing", session |-> None, expires |-> None]

\* a file that is no JSON text
BrokenConfig == [file |-> "unparseable", session |-> None, expires |-> None]

\* the file holds {}
EmptyConfig == [file |-> "json", session |-> None, expires |-> None]

\* new Date() when the program runs, as the text JSON.stringify gives a date
Now == "2020-01-01"

\* a session whose cookie expired before Now
ExpiredSession == [file |-> "json", session |-> "cached", expires |-> "2019-01-01"]

\* the file holds a session and no expiry
IncompleteSession == [file |-> "json", session |-> "cached", expires |-> None]

StartConfigs ==
    {NoConfig, BrokenConfig, EmptyConfig, CachedSession, ExpiredSession, IncompleteSession}

InitStart ==
    \E formats \in StartFormats, config \in StartConfigs, token \in {None, "token"},
       keys \in {<<>>, <<1>>, <<3>>}, disk \in {<<>>, WriteFile(<<>>, EpubOfBundleA, 1)} :
        Start([Options(formats, keys, <<>>) EXCEPT !.authToken = token],
              config, <<1, 2>>, FetchCatalog, disk)

SpecStart == InitStart /\ [][Next]_vars

(* SpecPool: one bundle of six books, more than p-map maps at once; the   *)
(* folder holds the first book complete and the second cut short; the     *)
(* default download limit or the largest.                                  *)

PoolBooks == <<"Book 1", "Book 2", "Book 3", "Book 4", "Book 5", "Book 6">>

PoolCatalog ==
    1 :> Order(1, "Bundle A", "2019-01-01",
               [s \in DOMAIN PoolBooks |->
                   Subproduct(PoolBooks[s], BookUrl,
                       <<Download("ebook", Struct("EPUB", "https://dl.example/epub", "sha1", None, 1))>>)])

PoolFolder ==
    WriteFile(WriteFile(<<>>, <<"Bundle A", <<"Book 1", ".", "epub">>>>, 1),
              <<"Bundle A", <<"Book 2", ".", "epub">>>>, 0)

InitPool ==
    \E limitArg \in {<<>>, <<MaxLimit>>} :
        Start(Options(<<"epub">>, <<>>, limitArg), CachedSession, <<1>>, PoolCatalog, PoolFolder)

SpecPool == InitPool /\ [][Next]_vars

\* a step of the admission stage: a directory creation or a hash ends
Admission == \E i \in Tasks : MkdirDone(i) \/ HashDone(i)

\* the pool of SpecPool under the default download limit, where five of the
\* six tasks can wait for one transfer
InitPoolLive ==
    Start(Options(<<"epub">>, <<>>, <<>>), CachedSession, <<1>>, PoolCatalog, PoolFolder)

\* the file system answers: while a directory creation or a hash is pending,
\* one of them comes to its end. Nothing is assumed of the transfers: a
\* stream may stay open for ever
SpecPoolLive == InitPoolLive /\ [][Next]_vars /\ WF_vars(Admission)

(* SpecRerun: as Spec, and the operator may run the program a second time *)

NextRerun == Next \/ Rerun

SpecRerun == Init /\ [][NextRerun]_vars

-----------------------------------------------------------------------------
(* Properties *)

Downloading == {i \in Tasks : taskState[i] = "downloading"}
Stuck == {i \in Tasks : taskState[i] = "stuck"}
Enqueued == {i \in Tasks : taskState[i] \in {"queued", "downloading", "downloaded", "stuck"}}
Admitted == {i \in Tasks : taskState[i] \notin {"planned", "mkdir", "hashing"}}

\* the declared checksum of a variant and the digest of content c under the
\* same algorithm: SHA-1 if a SHA-1 checksum is declared, MD5 otherwise
DigestMatches(c, variant) ==
    IF variant.sha1 # NoHash THEN <<"sha1", c>> = variant.sha1 ELSE <<"md5", c>> = variant.md5

\* the other tasks planned for the path of task i
SamePath(i) == {j \in Tasks \ {i} : FilePath(downloads[j]) = FilePath(downloads[i])}

\* C1: if a task's transfer fails, the failure is logged and the siblings are
\* not cancelled: a run in which a transfer failed ends only with its final
\* report printed and with every other enqueued task completed.
C1_FailureDoesNotCancelSiblings ==
    (pc = "exited" /\ Stuck # {}) =>
        /\ "Done!" \in printed
        /\ \A i \in Enqueued \ Stuck : taskState[i] = "downloaded"

\* C3: the transfers in progress never exceed the download limit, which is 1
\* when the operator gives none.
C3_TransfersWithinLimit ==
    /\ Cardinality(Downloading) <= options.downloadLimit
    /\ options.limitArg = <<>> => Cardinality(Downloading) <= 1
    /\ options.limitArg # <<>> => Cardinality(Downloading) <= options.limitArg[1]

C3_Witness ==
    /\ options.limitArg = <<2>>
    /\ Cardinality(Downloading) = 2
    /\ queue # <<>>

\* C4: a task is skipped exactly when a file existed at its path and the
\* digest of the content read equals the declared checksum; every other task
\* is enqueued, and its transfer overwrites the file.
C4_IntegrityCheck ==
    \A i \in Admitted :
        LET variant == downloads[i].download
            satisfied == hashInput[i] # <<>> /\ DigestMatches(hashInput[i][1], variant)
        IN /\ taskState[i] = "skipped" <=> satisfied
           /\ ~satisfied => i \in Enqueued /\ i \in Range(downloadPromises)
           /\ taskState[i] \in {"downloading", "stuck"} /\ SamePath(i) = {} =>
                  FilePath(downloads[i]) \in DOMAIN files /\ files[FilePath(downloads[i])] = 0
           /\ taskState[i] = "downloaded" /\ SamePath(i) = {} =>
                  files[FilePath(downloads[i])] = variant.content

C4_Witness ==
    \E i, j, k \in Admitted :
        /\ taskState[i] = "skipped" /\ downloads[i].download.sha1 # NoHash
        /\ taskState[j] = "downloaded" /\ hashInput[j] # <<>>
        /\ taskState[k] = "downloaded" /\ hashInput[k] = <<>>

\* the file the process found at the path of task i matches the checksum
\* declared for the task
VerifiedAtStart(i) ==
    /\ FilePath(downloads[i]) \in DOMAIN folderAtStart
    /\ DigestMatches(folderAtStart[FilePath(downloads[i])], downloads[i].download)

NothingTransferred ==
    /\ Enqueued = {} /\ downloadPromises = <<>>
    /\ "Done!" \in printed => \A i \in Tasks : taskState[i] = "skipped"

\* C2 as stated: a re-run, with the same catalog and formats, on the folder of
\* a run that completed every transfer starts no transfer and skips every task.
C2_RerunAfterCleanRun == (rerun /\ firstRunClean) => NothingTransferred

\* C2 amended: a re-run on the folder of a run that completed every transfer
\* starts no transfer and skips every task, if the folder holds for every task
\* a file whose digest equals the task's declared checksum.
C2_RerunOfVerifiedFolder ==
    (rerun /\ firstRunClean /\ \A i \in Tasks : VerifiedAtStart(i)) => NothingTransferred

C2_Witness ==
    /\ rerun /\ firstRunClean
    /\ Cardinality(Tasks) = 3
    /\ \A i \in Tasks : VerifiedAtStart(i) /\ taskState[i] = "skipped"
    /\ \E i \in Tasks : downloads[i].download.sha1 = NoHash
    /\ "Done!" \in printed

\* C5: if -k names a key that the account's key list lacks, the run fails with
\* a validation error and no order-detail request is issued.
KeysOfOperator == IF options.keys \in {<<>>, <<0>>} THEN {} ELSE Range(options.keys)

C5_InvalidKeyIsFatalBeforeDetails ==
    (KeysOfOperator \ Range(accountKeys) # {}) =>
        /\ orderRequests = <<>>
        /\ pc \in {"start", "loadConfig", "validateSession", "authenticate", "fetchKeys", "exited"}
        /\ "Done!" \notin printed
        /\ pc = "exited" => exitCode = {ExitFatal} /\ "An error occured, exiting." \in printed

C5_Witness ==
    /\ pc = "exited" /\ "Invalid key" \in printed /\ exitCode = {ExitFatal}
    /\ options.keys[1] \in Range(accountKeys)
    /\ orderRequests = <<>>

\* C6: if the key-list request or a chunk's request is answered with a
\* non-success status, the run ends with a fatal error and nothing fetched is
\* used: no bundle is filtered or planned, no integrity check runs, no
\* transfer starts.
FetchFailed == "Could not fetch orders" \in printed \/ "HTTPError" \in printed

C6_FetchErrorIsFatal ==
    FetchFailed =>
        /\ pc = "exited" /\ exitCode = {ExitFatal}
        /\ "An error occured, exiting." \in printed /\ "Done!" \notin printed
        /\ bundles = <<>> /\ downloads = <<>> /\ taskState = <<>>
        /\ downloadPromises = <<>> /\ files = folderAtStart

C6_Witness ==
    /\ "HTTPError" \in printed
    /\ pc = "exited"
    /\ \E i \in DOMAIN fetchedOrders : fetchedOrders[i].subproducts # <<>>

\* C7: the details of N keys are fetched with ceil(N/40) requests, none when N
\* is 0, of at most 40 keys each, and the chunks in order are the key list.
CeilDiv(n, d) == IF n % d = 0 THEN n \div d ELSE n \div d + 1

FetchComplete == pc \in {"filterOrders", "processBundles", "mapping", "awaitDownloads"}

C7_ChunkedRequests ==
    /\ \A r \in DOMAIN orderRequests : Len(orderRequests[r]) \in 1..40
    /\ Len(orderRequests) <= CeilDiv(Len(filteredKeys), 40)
    /\ Flatten(orderRequests) = SubSeq(filteredKeys, 1, Len(Flatten(orderRequests)))
    /\ FetchComplete =>
          /\ Len(orderRequests) = CeilDiv(Len(filteredKeys), 40)
          /\ Flatten(orderRequests) = filteredKeys

C7_Witness ==
    /\ pc = "filterOrders"
    /\ Len(filteredKeys) = 81
    /\ Len(orderRequests) = 3
    /\ Len(orderRequests[3]) = 1

\* C8: the merged order list holds no bundle twice, for every key list the
\* fetch accepts.
C8_NoDuplicateOrders ==
    \A i, j \in DOMAIN fetchedOrders :
        i # j => fetchedOrders[i].gamekey # fetchedOrders[j].gamekey

-----------------------------------------------------------------------------
(* Properties of the plan *)

\* the variants of a subproduct as the planner numbers them, each with the
\* platform it is offered under
OfferedPlatforms(subproduct) ==
    LET Required(download) == requiredPlatform(download.platform)
        filteredDownloads == SelectSeq(subproduct.downloads, Required)
    IN Flatten([d \in DOMAIN filteredDownloads |->
                   [k \in DOMAIN filteredDownloads[d].download_struct |->
                       filteredDownloads[d].platform]])

\* the variants of the selected bundles: <<bundle, subproduct, variant>>
Variants ==
    {<<b, s, j>> \in (DOMAIN bundles) \X (1..2) \X (1..4) :
        /\ s \in DOMAIN bundles[b].subproducts
        /\ j \in DOMAIN DownloadStructs(bundles[b].subproducts[s])}

VariantAt(v) == DownloadStructs(bundles[v[1]].subproducts[v[2]])[v[3]]
SubproductAt(v) == bundles[v[1]].subproducts[v[2]]
PlatformAt(v) == OfferedPlatforms(SubproductAt(v))[v[3]]
IsTask(v) == \E i \in Tasks : downloads[i].ref = v
Planned == pc \in {"mapping", "awaitDownloads"}
Requested == Range(options.formats)

\* 'video' for a variant classified as video, its canonical tag otherwise
EffectiveTag(v) ==
    IF identifyVideo(VariantAt(v), SubproductAt(v)) THEN "video"
    ELSE normalizeFormat(VariantAt(v).name)

\* C9: a variant that passes the platform and name/URL checks becomes a task
\* exactly when 'all' or its effective tag is requested; a 'Download' variant
\* classified as video only if 'video' or 'all' is requested.
C9_AdmittedByEffectiveTag ==
    Planned =>
        \A v \in Variants :
            (PlatformAt(v) \in {"ebook", "video"}
             /\ Truthy(VariantAt(v).name) /\ Truthy(VariantAt(v).url)) =>
                /\ IsTask(v) <=> ("all" \in Requested \/ EffectiveTag(v) \in Requested)
                /\ (IsTask(v) /\ VariantAt(v).name = "Download"
                    /\ identifyVideo(VariantAt(v), SubproductAt(v)))
                       => ("video" \in Requested \/ "all" \in Requested)

C9_Witness ==
    /\ Planned
    /\ options.formats = <<"video">>
    /\ \E v, w \in Variants :
         /\ IsTask(v) /\ VariantAt(v).name = "Download" /\ PlatformAt(v) = "ebook"
         /\ VariantAt(v).platform = None
         /\ ~IsTask(w) /\ VariantAt(w).name = "EPUB" /\ PlatformAt(w) = "ebook"

\* C10: no task is planned for a variant whose platform is neither 'ebook' nor
\* 'video', nor for a variant without a name or without a URL.
C10_OnlyEbookAndVideoWithNameAndUrl ==
    \A v \in Variants :
        IsTask(v) =>
            /\ PlatformAt(v) \in {"ebook", "video"}
            /\ Truthy(VariantAt(v).name) /\ Truthy(VariantAt(v).url)

\* the subproduct a task belongs to: <<bundle, subproduct>>
SubproductOf(i) == <<downloads[i].ref[1], downloads[i].ref[2]>>

\* C11: unless 'all' is requested, no two tasks of one subproduct carry the
\* same canonical format tag (the tag with its video mark).
C11_OneTaskPerSubproductAndTag ==
    "all" \notin Requested =>
        \A i, j \in Tasks :
            (i # j /\ SubproductOf(i) = SubproductOf(j)) =>
                downloads[i].adjustedFormat # downloads[j].adjustedFormat

\* the variant a task is planned for: the bundle by its gamekey, the
\* subproduct and the variant by their positions in the order
TripleOf(i) ==
    <<bundles[downloads[i].ref[1]].gamekey, downloads[i].ref[2], downloads[i].ref[3]>>

\* C12: no two tasks are planned for the same (bundle, subproduct, variant).
C12_NoTwoTasksForOneVariant ==
    \A i, j \in Tasks : i # j => TripleOf(i) # TripleOf(j)

-----------------------------------------------------------------------------
(* Properties of the order filter *)

Filtered == pc = "processBundles" /\ options.all

\* the bundle's display name contains the --filter text, case ignored
PassesNameFilter(order) ==
    options.filter = None
    \/ Includes(ToLowerCase(order.product.human_name), ToLowerCase(options.filter))

PlatformTags(order) ==
    UNION {{order.subproducts[s].downloads[d].platform :
               d \in DOMAIN order.subproducts[s].downloads} : s \in DOMAIN order.subproducts}

Kept(order) == \E b \in DOMAIN bundles : bundles[b].gamekey = order.gamekey

\* C13: a fetched bundle that passes the name filter is kept exactly when one
\* of its variants is tagged 'ebook' or 'video'; a bundle whose variants are
\* all tagged 'video' is kept.
C13_KeptIffEbookOrVideo ==
    Filtered =>
        \A n \in DOMAIN fetchedOrders :
            PassesNameFilter(fetchedOrders[n]) =>
                (Kept(fetchedOrders[n])
                    <=> PlatformTags(fetchedOrders[n]) \cap {"ebook", "video"} # {})

\* the position of a selected bundle in the fetched list
FetchIndex(b) == CHOOSE n \in DOMAIN fetchedOrders : fetchedOrders[n].gamekey = bundles[b].gamekey

SortKey(b) ==
    IF options.sort = "name" THEN bundles[b].product.human_name ELSE bundles[b].created

\* C14: the filtered list is in ascending order of name for 'name' and in
\* descending order of creation date for 'date', and bundles with equal keys
\* are in the order in which they were fetched.
C14_SortedAndStable ==
    Filtered =>
        \A i, j \in DOMAIN bundles :
            i < j =>
                /\ options.sort = "name" => Rank(SortKey(i)) <= Rank(SortKey(j))
                /\ options.sort = "date" => Rank(SortKey(i)) >= Rank(SortKey(j))
                /\ SortKey(i) = SortKey(j) => FetchIndex(i) < FetchIndex(j)

C14_Witness ==
    /\ Filtered
    /\ options.sort = "date"
    /\ Len(bundles) = 3
    /\ <<bundles[1].gamekey, bundles[2].gamekey, bundles[3].gamekey>> = <<3, 1, 2>>
    /\ bundles[2].created = bundles[3].created
    /\ bundles[2].product.human_name = "Bundle B" /\ bundles[3].product.human_name = "Bundle A"

-----------------------------------------------------------------------------
(* Properties of the start and of the end of a run *)

\* the causes of a fatal error, as printed
FatalCauses ==
    {"Invalid format selected.", "Could not validate session", "Could not fetch orders",
     "HTTPError", "Invalid key", "SyntaxError"}

\* C15: every fatal error (no usable session, a non-success catalog status, a
\* key of -k that the account lacks, a requested format that is not allowed)
\* ends the process with a non-zero exit status, its cause printed.
C15_FatalErrorExitsNonZero ==
    printed \cap FatalCauses # {} =>
        pc = "exited" /\ exitCode # NotExited /\ 0 \notin exitCode

\* C16: a run in which a transfer failed still comes to its end and prints
\* its final report, 'Done!'.
C16_FailedRunReportsDone ==
    (pc = "exited" /\ "Something went wrong." \in printed) =>
        "Done!" \in printed /\ exitCode = {ExitDone}

\* a requested format that is not one of epub, mobi, prc, pdf, pdf_hd, cbz,
\* video, all
InvalidFormatRequested ==
    \E i \in DOMAIN options.formats :
        options.formats[i] \notin {"epub", "mobi", "prc", "pdf", "pdf_hd", "cbz", "video", "all"}

\* no request has been issued: the run is where it started or has ended, and
\* nothing was validated, fetched, logged in to, planned or written
NoRequestIssued ==
    /\ pc \in {"start", "exited"}
    /\ session = None /\ configFile.session # "fresh"
    /\ fetchedKeys = <<>> /\ filteredKeys = <<>> /\ orderRequests = <<>> /\ fetchedOrders = <<>>
    /\ bundles = <<>> /\ downloads = <<>> /\ downloadPromises = <<>> /\ queue = <<>>
    /\ files = folderAtStart

\* C17: if a requested format is not an allowed one, the run is rejected
\* before any request (session validation, key list, order details,
\* transfer) is issued.
C17_InvalidFormatRejectedBeforeRequests ==
    InvalidFormatRequested =>
        /\ NoRequestIssued
        /\ pc = "exited" => "Invalid format selected." \in printed /\ "Starting..." \notin printed

C17_Witness ==
    /\ pc = "exited"
    /\ options.formats = <<"epub", "mp4">>
    /\ "Invalid format selected." \in printed
    /\ options.authToken = "token" /\ configFile = CachedSession

\* the causes of a fatal error that arise after the configuration is loaded
LaterCauses ==
    {"Could not validate session", "Could not fetch orders", "HTTPError", "Invalid key"}

\* C18: a session cache file that is missing or cannot be parsed is a cache
\* miss: the run goes on to login or validation and does not end with a fatal
\* error for it.
C18_BadCacheIsCacheMiss ==
    (configFile.file \in {"missing", "unparseable"} /\ ~InvalidFormatRequested) =>
        /\ pc = "exited" /\ exitCode = {ExitFatal} => printed \cap LaterCauses # {}
        /\ "SyntaxError" \notin printed

-----------------------------------------------------------------------------
(* Properties of the two pools *)

Skipped == {i \in Tasks : taskState[i] = "skipped"}
Downloaded == {i \in Tasks : taskState[i] = "downloaded"}

\* no task is enqueued twice, none is both skipped and enqueued, and the
\* counter of line 45 counts every skipped and every downloaded task once
ConsumedAtMostOnce ==
    /\ \A k, l \in DOMAIN downloadPromises : k # l => downloadPromises[k] # downloadPromises[l]
    /\ Range(downloadPromises) = Enqueued
    /\ Skipped \cap Range(downloadPromises) = {}
    /\ \A k \in DOMAIN queue : taskState[queue[k]] = "queued"
    /\ doneDownloads = Cardinality(Skipped) + Cardinality(Downloaded)
    /\ doneDownloads <= totalDownloads

\* C19: every planned task is consumed exactly once: checked once, then either
\* skipped or transferred once, never both and never twice; when the process
\* has ended every task was skipped or had its transfer, and when the run
\* reports completion no task is pending or in flight.
C19_EveryTaskConsumedOnce ==
    /\ ConsumedAtMostOnce
    /\ pc = "exited" => \A i \in Tasks : taskState[i] \in {"skipped", "downloaded", "stuck"}
    /\ "Done!" \in printed => \A i \in Tasks : taskState[i] \in {"skipped", "downloaded"}

\* the tasks inside downloadEbook: directory creation, integrity check, enqueue
InAdmission == {i \in Tasks : taskState[i] \in {"mkdir", "hashing"}}

\* C20: at most 5 tasks are in the admission stage at once, whatever the
\* download limit is.
C20_AdmissionWithinFive ==
    /\ Cardinality(InAdmission) <= 5
    /\ \A i \in Tasks : taskState[i] = "planned" => Cardinality(InAdmission) = 5

C20_Witness ==
    /\ Cardinality(InAdmission) = 5
    /\ options.downloadLimit = 1
    /\ Cardinality(Downloading) = 1
    /\ \E i \in InAdmission : taskState[i] = "hashing"

-----------------------------------------------------------------------------
(* Properties of the planned tasks *)

\* the variants of a subproduct that have a name and a url
Offered(b, s) ==
    {v \in Variants : v[1] = b /\ v[2] = s
                      /\ Truthy(VariantAt(v).name) /\ Truthy(VariantAt(v).url)}

TasksOf(b, s) == {i \in Tasks : downloads[i].ref[1] = b /\ downloads[i].ref[2] = s}

DistinctTags(b, s) ==
    \A v, w \in Offered(b, s) : v # w => EffectiveTag(v) # EffectiveTag(w)

\* what follows the subproduct's name in the destination file's name
ExtensionOf(i) == Tail(FilePath(downloads[i])[2])

SingleFormat == Len(options.formats) = 1 /\ options.formats[1] # "all"

SubproductsPlanned ==
    {<<b, s>> \in (DOMAIN bundles) \X (1..2) : s \in DOMAIN bundles[b].subproducts}

\* the number of tasks the claim gives a subproduct for the single format f
OneTaskIfOffered(b, s, f) ==
    Cardinality(TasksOf(b, s)) =
        IF \E v \in Offered(b, s) : EffectiveTag(v) = f THEN 1 ELSE 0

\* C21 as stated: for a subproduct whose variants have pairwise distinct tags,
\* the single requested format f yields one task if a variant has tag f and
\* none otherwise; the task carries tag f and its file has extension '.f'.
C21_OneTaskTagAndDotExtension ==
    (Planned /\ SingleFormat) =>
        \A bs \in SubproductsPlanned :
            DistinctTags(bs[1], bs[2]) =>
                /\ OneTaskIfOffered(bs[1], bs[2], options.formats[1])
                /\ \A i \in TasksOf(bs[1], bs[2]) :
                      /\ downloads[i].adjustedFormat = <<options.formats[1]>>
                      /\ ExtensionOf(i) = <<".", options.formats[1]>>

\* the label's tag, for the labels of the model
LabelTag(label) ==
    CASE label \in {"EPUB", "epub"} -> "epub"
      [] label \in {"PDF (HD)", "PDF (HQ)"} -> "pdf_hd"
      [] label = ".CBZ" -> "cbz"
      [] label = "Download" -> "download"
      [] label = "Supplement" -> "supplement"
      [] label = "MP4" -> "mp4"
      [] OTHER -> label

\* the extension the program gives a label's tag
TagExtension(tag) ==
    CASE tag = "pdf_hd" -> <<" (hd).pdf">>
      [] tag = "download" -> <<".download.zip">>
      [] tag = "supplement" -> <<".supplement.zip">>
      [] OTHER -> <<".", tag>>

\* C21 amended: the same number of tasks; a task that is no video carries tag
\* f and its file has extension '.f', but ' (hd).pdf' for pdf_hd; a video's
\* task carries 'video' with its label's tag and has that tag's extension.
C21_OneTaskTagAndExtension ==
    (Planned /\ SingleFormat) =>
        \A bs \in SubproductsPlanned :
            DistinctTags(bs[1], bs[2]) =>
                /\ OneTaskIfOffered(bs[1], bs[2], options.formats[1])
                /\ \A i \in TasksOf(bs[1], bs[2]) :
                      LET f == options.formats[1]
                          tag == LabelTag(downloads[i].download.name)
                      IN IF f = "video"
                         THEN /\ downloads[i].adjustedFormat = <<"video", tag>>
                              /\ ExtensionOf(i) = TagExtension(tag)
                         ELSE /\ downloads[i].adjustedFormat = <<f>>
                              /\ ExtensionOf(i) =
                                    IF f = "pdf_hd" THEN <<" (hd).pdf">> ELSE <<".", f>>

C21_Witness ==
    /\ Planned /\ options.formats = <<"pdf_hd">>
    /\ DistinctTags(1, 1) /\ Cardinality(Offered(1, 1)) = 2
    /\ \E v \in Offered(1, 1) : EffectiveTag(v) = "epub"
    /\ Cardinality(TasksOf(1, 1)) = 1
    /\ \A i \in TasksOf(1, 1) : ExtensionOf(i) = <<" (hd).pdf">>

\* the task planned for a variant carries the video mark
TaggedVideo(v) ==
    \A i \in Tasks : downloads[i].ref = v =>
        Len(downloads[i].adjustedFormat) = 2 /\ downloads[i].adjustedFormat[1] = "video"

Named(v) == Truthy(VariantAt(v).name) /\ Truthy(VariantAt(v).url)

\* C22: the planner classifies every variant offered under platform 'video'
\* as video, whatever its label and the subproduct's URL: it is planned when
\* 'video' is requested and its task carries the video mark.
C22_VideoPlatformIsVideo ==
    Planned =>
        \A v \in Variants :
            (PlatformAt(v) = "video" /\ Named(v)) =>
                /\ identifyVideo(VariantAt(v), SubproductAt(v))
                /\ "video" \in Requested => IsTask(v)
                /\ TaggedVideo(v)

\* a part of the subproduct's URL ends with 'video'
UrlNamesVideo(v) == SubproductAt(v).url = VideoUrl

TagsSeen(b) == {EffectiveTag(v) : v \in {w \in Variants : w[1] = b /\ Named(w)}}

NoTasks(b) == \A i \in Tasks : downloads[i].ref[1] # b

ListedOnce(b) ==
    \A k, l \in DOMAIN bundleFormats[b] : k # l => bundleFormats[b][k] # bundleFormats[b][l]

\* C24 as stated: for a bundle that yields no task the diagnostic lists every
\* tag seen among the bundle's variants, each once.
C24_DiagnosticListsAllTags ==
    Planned =>
        \A b \in DOMAIN bundles :
            NoTasks(b) => ListedOnce(b) /\ Range(bundleFormats[b]) = TagsSeen(b)

\* C24 amended: the diagnostic lists the supported tags seen, each once.
C24_DiagnosticListsSupportedTags ==
    Planned =>
        \A b \in DOMAIN bundles :
            NoTasks(b) =>
                /\ ListedOnce(b)
                /\ Range(bundleFormats[b]) =
                      TagsSeen(b) \cap {"epub", "mobi", "prc", "pdf", "pdf_hd", "cbz", "video"}

C24_Witness ==
    /\ Planned /\ options.formats = <<"epub">> /\ NoTasks(1)
    /\ TagsSeen(1) = {"pdf_hd", "mp4"}
    /\ bundleFormats[1] = <<"pdf_hd">>

-----------------------------------------------------------------------------
(* Properties of the counters and of the end of the run *)

\* the counters in a state: no task has entered downloadEbook before the
\* total is set, the total is the number of planned tasks, the done counter
\* is the number of tasks skipped or downloaded
CountersRight ==
    /\ pc \in {"start", "loadConfig", "validateSession", "authenticate", "fetchKeys",
               "fetchOrders", "filterOrders", "processBundles"} =>
           totalDownloads = 0 /\ doneDownloads = 0 /\ taskState = <<>>
    /\ pc \in {"mapping", "awaitDownloads"} => totalDownloads = Len(downloads)
    /\ doneDownloads = Cardinality(Skipped) + Cardinality(Downloaded)
    /\ doneDownloads <= totalDownloads
    /\ "Done!" \in printed => doneDownloads = totalDownloads

\* C25: the total is set to the number of planned tasks before any task is
\* admitted and does not change afterwards; the done counter is the number of
\* tasks skipped plus the number of transfers completed, it grows by one at a
\* time, done <= total always and done = total when the run reports completion.
C25_CountersConsistent ==
    /\ []CountersRight
    /\ [][/\ pc # "processBundles" => totalDownloads' = totalDownloads
          /\ doneDownloads' \in {doneDownloads, doneDownloads + 1}]_vars

C25_Witness ==
    /\ "Done!" \in printed
    /\ totalDownloads = 3 /\ doneDownloads = 3
    /\ Cardinality(Skipped) = 1 /\ Cardinality(Downloaded) = 2

-----------------------------------------------------------------------------
(* Properties of the format normalization *)

\* the tag of a task without its video mark
TagOf(i) == downloads[i].adjustedFormat[Len(downloads[i].adjustedFormat)]

\* C26: the tag of a label is decided by the label alone, compared without
\* regard to case: '.cbz' gives 'cbz', 'pdf (hq)' and 'pdf (hd)' give
\* 'pdf_hd', 'download' and 'supplement' themselves, every other label its
\* lower-cased form; every label has a tag.
C26_NormalizeFormatTable ==
    Planned =>
        /\ \A v \in Variants : Named(v) => normalizeFormat(VariantAt(v).name) = LabelTag(VariantAt(v).name)
        /\ \A i \in Tasks : TagOf(i) = LabelTag(downloads[i].download.name)
        /\ \A i, j \in Tasks :
              LabelTag(downloads[i].download.name) = LabelTag(downloads[j].download.name)
                  => TagOf(i) = TagOf(j)
        /\ "all" \in Requested => \A v \in Variants : Named(v) => IsTask(v)

C26_Witness ==
    /\ Planned /\ options.formats = <<"all">>
    /\ \E i, j \in Tasks :
         /\ downloads[i].download.name = ".CBZ" /\ TagOf(i) = "cbz"
         /\ downloads[j].download.name = "PDF (HQ)" /\ TagOf(j) = "pdf_hd"

-----------------------------------------------------------------------------
(* Properties of the session *)

TokenGiven == options.authToken # None

LoggedIn == session = "fresh" \/ configFile.session = "fresh"

\* the cached session cannot be used: none, no expiry, or expired
CacheUnusable ==
    /\ configFile.file \in {"missing", "json"}
    /\ \/ configFile.session = None
       \/ configFile.expires = None
       \/ Rank(configFile.expires) < Rank(Now)

\* C27: with a session token that the server does not accept the run ends
\* with a fatal error, without login and without a request for the catalog;
\* without a token, a cached session that is missing, incomplete or expired
\* leads to the login, not to a validation request or a fatal error.
C27_TokenRejectedIsFatalElseLogin ==
    /\ TokenGiven =>
          /\ ~LoggedIn /\ pc # "authenticate"
          /\ "Could not validate session" \in printed =>
                /\ pc = "exited" /\ exitCode = {ExitFatal}
                /\ fetchedKeys = <<>> /\ orderRequests = <<>> /\ downloads = <<>>
    /\ (~TokenGiven /\ CacheUnusable /\ ~InvalidFormatRequested) =>
          pc \in {"start", "loadConfig", "authenticate"}

\* every planned task has finished its integrity check and every transfer
\* that was enqueued has completed
AllSettled ==
    /\ \A i \in Tasks : i \in Admitted
    /\ \A k \in DOMAIN downloadPromises : taskState[downloadPromises[k]] = "downloaded"
    /\ queue = <<>> /\ Downloading = {}

\* C28: 'Done!' is printed only when every planned task has finished its
\* integrity check and every enqueued transfer has completed; once the run
\* waits for the transfer promises no transfer is enqueued.
C28_DoneOnlyWhenSettled ==
    /\ []("Done!" \in printed => AllSettled)
    /\ [](pc = "awaitDownloads" => \A i \in Tasks : i \in Admitted)
    /\ [][pc = "awaitDownloads" => downloadPromises' = downloadPromises]_vars

C28_Witness ==
    /\ "Done!" \in printed
    /\ Len(downloadPromises) = 2
    /\ \E k \in DOMAIN downloadPromises : hashInput[downloadPromises[k]] # <<>>
    /\ Cardinality(Skipped) = 1

EndReports == {"Done!", "An error occured, exiting.", "Invalid format selected."}

\* C30: when every request is answered and every transfer stream ends, the
\* run comes to its end with the final report or with the fatal-error exit,
\* and it leaves no task queued that was never started.
C30_RunEndsWithReportOrFatal ==
    pc = "exited" =>
        /\ printed \cap EndReports # {}
        /\ queue = <<>>

-----------------------------------------------------------------------------
(* Properties of the admission stage *)

\* the integrity check of task i is about to answer 'already satisfied': the
\* content it read matches the checksum declared for the task
AnswersSatisfied(i) ==
    /\ taskState[i] = "hashing"
    /\ hashInput[i] # <<>>
    /\ DigestMatches(hashInput[i][1], downloads[i].download)

\* task i was not handed to the transfer queue
NotEnqueued(i) ==
    /\ i \notin Range(downloadPromises)
    /\ i \notin Range(queue)
    /\ taskState[i] \notin {"queued", "downloading", "downloaded", "stuck"}

\* C31: a task whose integrity check answered 'already satisfied' is never
\* enqueued for transfer in that run: the step that ends its admission marks
\* it skipped and leaves the folder, the queue and the transfer promises as
\* they were, and a skipped task stays skipped and out of the queue.
C31_SatisfiedTaskNotEnqueued ==
    /\ [](\A i \in Tasks : taskState[i] = "skipped" => NotEnqueued(i))
    /\ [][\A i \in Tasks :
            /\ (AnswersSatisfied(i) /\ taskState'[i] # "hashing") =>
                   /\ taskState'[i] = "skipped"
                   /\ files' = files
                   /\ queue' = queue
                   /\ downloadPromises' = downloadPromises
            /\ (taskState[i] = "mkdir" /\ taskState'[i] = "hashing") => files' = files
            /\ taskState[i] = "skipped" => taskState'[i] = "skipped"]_vars

C31_Witness ==
    \E i, j \in Tasks :
        /\ taskState[i] = "skipped"
        /\ FilePath(downloads[i]) \in DOMAIN files
        /\ files[FilePath(downloads[i])] = hashInput[i][1]
        /\ taskState[j] = "downloaded"
        /\ pc = "exited"

\* the tasks p-map has not started yet
NotMapped == {i \in Tasks : taskState[i] = "planned"}

\* the step enqueues task i or skips it
LeavesAdmission(i) == taskState[i] \in {"mkdir", "hashing"} /\ taskState'[i] \notin {"mkdir", "hashing"}

-----------------------------------------------------------------------------
(* Properties of the exit status *)

\* the run completed every step: it ended with its final report and without
\* the fatal banner
Completed == pc = "exited" /\ "Done!" \in printed /\ "An error occured, exiting." \notin printed

\* C33: a run that completes every step without error ends with an exit
\* status different from the one used for fatal errors.
C33_CompletedRunExitStatusNotFatal ==
    Completed => ExitFatal \notin exitCode

=============================================================================
